---- MODULE Spec2Model ----
(***************************************************************************)
(* Model of scanner.py: main (argument handling, the interrupt prompt and  *)
(* the resume path), scan_ports (resolution, batch loop, summary) and      *)
(* scan_port (one probe).                                                  *)
(*                                                                         *)
(* The port space and the batch cap are scaled down: MaxPort stands for    *)
(* 65535 and ChunkCap for 1000, and COMMON_PORTS keeps the shape of the    *)
(* table (listed ports with unlisted ports between them) inside the scaled *)
(* port space.  Everything else follows the source line by line.           *)
(***************************************************************************)
EXTENDS Integers, Sequences, FiniteSets, TLC

MaxPort == 3
ChunkCap == 2
MaxInvalid == 1

\* the default of scan_ports' parameter start_from_port
start_from_default == 0

\* the default of scan_port's parameter timeout
timeout_default == 1

\* The values argparse can hand to main for -t, in whole time units.
TimeoutArgs == {1, 2}

\* Every port number a probe can be given: range() in scan_ports starts at 0.
Ports == 0..MaxPort

\* The values argparse can hand to main for -s and -e.
ArgPorts == 0..(MaxPort + 1)

COMMON_PORTS == (1 :> "FTP Data") @@ (3 :> "SSH")

Min(a, b) == IF a < b THEN a ELSE b

SetMin(S) == CHOOSE x \in S : \A y \in S : x <= y

SetMax(S) == CHOOSE x \in S : \A y \in S : y <= x

VARIABLES
    pc,              \* position of main: "main", "run", "scan", "prompt", "exited"
    host,            \* args.host: "ip" (a literal address) or "name"
    common,          \* args.common
    timeout,         \* args.timeout
    start_port,      \* args.start_port
    end_port,        \* args.end_port
    current_port,    \* main's local current_port
    attempt,         \* which asyncio.run call is active: 0 none, 1 first, 2 resumed
    sp_start,        \* scan_ports parameter start_port
    start_from_port, \* scan_ports parameter start_from_port
    resolved,        \* resolution of this scan_ports execution: "none", "ok", "failed"
    chunk_size,      \* scan_ports local chunk_size
    port,            \* scan_ports loop variable port
    tasks,           \* scan_ports local tasks: ports of the tasks in the list
    task,            \* per port, the state of its scan_port coroutine
    results,         \* scan_ports local results: port -> entry
    issued,          \* per port, tasks created for it in this execution
    tmo,             \* per port, the timeout its scan_port was called with (0: no call)
    link,            \* per port, how the awaited connection attempt ended
    shut,            \* per port, how the awaited wait_closed() ended
    batches,         \* batches spawned by this execution, in order
    joined,          \* number of batches of this execution joined so far
    prior,           \* ports of the batches the interrupted execution had joined
    invalid,         \* invalid answers typed at the prompt
    out,             \* what was printed, in order
    exit_code        \* -1 while running, else the process exit code

vars == <<pc, host, common, timeout, start_port, end_port, current_port, attempt,
          sp_start, start_from_port, resolved, chunk_size, port, tasks, task,
          results, issued, tmo, link, shut, batches, joined, prior, invalid,
          out,
          exit_code>>

scanVars == <<sp_start, start_from_port, resolved, chunk_size, port, tasks,
              task, results, issued, tmo, link, shut, batches, joined>>

argVars == <<host, common, timeout, start_port, end_port>>

ConnectOutcomes == {"established", "timeout", "refused", "oserror"}

CloseOutcomes == {"closed", "lost"}

NoTasks == [p \in Ports |-> "none"]

NoResults == [p \in {} |-> [status |-> "closed"]]

Init ==
    /\ pc = "main"
    /\ host \in {"ip", "name"}
    /\ common \in BOOLEAN
    /\ timeout \in TimeoutArgs
    /\ start_port \in ArgPorts
    /\ end_port \in ArgPorts
    /\ current_port = 0
    /\ attempt = 0
    /\ sp_start = 0
    /\ start_from_port = 0
    /\ resolved = "none"
    /\ chunk_size = 0
    /\ port = 0
    /\ tasks = {}
    /\ task = NoTasks
    /\ results = NoResults
    /\ issued = [p \in Ports |-> 0]
    /\ tmo = [p \in Ports |-> 0]
    /\ link = [p \in Ports |-> "none"]
    /\ shut = [p \in Ports |-> "none"]
    /\ batches = <<>>
    /\ joined = 0
    /\ prior = {}
    /\ invalid = 0
    /\ out = <<>>
    /\ exit_code = -1

(***************************************************************************)
(* main, lines 103-120                                                     *)
(***************************************************************************)

\* lines 105-108: --common replaces the range by the table's least and greatest key
EffStart(c, s) == IF c THEN SetMin(DOMAIN COMMON_PORTS) ELSE s

EffEnd(c, e) == IF c THEN SetMax(DOMAIN COMMON_PORTS) ELSE e

\* lines 110 and 113: the two rejections
RangeRejected(s, e) == s < 1 \/ e > MaxPort

\* a comparison that lets a start one above the end through
OrderRejectedOffByOne(s, e) == s > e + 1

OrderRejected(s, e) == s > e

\* one print call: the message, and for the summary its two counts
Msg(m) == [msg |-> m, total |-> 0, open |-> 0]

Exit(code) ==
    /\ pc' = "exited"
    /\ exit_code' = code

MainRejectRange ==
    /\ pc = "main"
    /\ RangeRejected(EffStart(common, start_port), EffEnd(common, end_port))
    /\ start_port' = EffStart(common, start_port)
    /\ end_port' = EffEnd(common, end_port)
    /\ out' = Append(out, Msg("range_error"))
    /\ Exit(0)
    /\ UNCHANGED <<host, common, timeout, current_port, attempt, scanVars, prior,
                   invalid>>

MainRejectOrder ==
    /\ pc = "main"
    /\ ~RangeRejected(EffStart(common, start_port), EffEnd(common, end_port))
    /\ OrderRejected(EffStart(common, start_port), EffEnd(common, end_port))
    /\ start_port' = EffStart(common, start_port)
    /\ end_port' = EffEnd(common, end_port)
    /\ out' = Append(out, Msg("order_error"))
    /\ Exit(0)
    /\ UNCHANGED <<host, common, timeout, current_port, attempt, scanVars, prior,
                   invalid>>

\* lines 117-120: asyncio.run(scan_ports(host, start_port, end_port)); the
\* fourth parameter is not passed and takes its default, 0 (line 33).
MainScan ==
    /\ pc = "main"
    /\ ~RangeRejected(EffStart(common, start_port), EffEnd(common, end_port))
    /\ ~OrderRejected(EffStart(common, start_port), EffEnd(common, end_port))
    /\ start_port' = EffStart(common, start_port)
    /\ end_port' = EffEnd(common, end_port)
    /\ current_port' = start_port'
    /\ attempt' = 1
    /\ sp_start' = start_port'
    /\ start_from_port' = start_from_default
    /\ pc' = "run"
    /\ UNCHANGED <<host, common, timeout, resolved, chunk_size, port, tasks, task,
                   results, issued, tmo, link, shut, batches, joined, prior,
                   invalid,
                   out, exit_code>>

(***************************************************************************)
(* scan_port, lines 18-31                                                  *)
(***************************************************************************)

\* line 25: the entry of an established connection
OpenEntry(p) ==
    [status |-> "open",
     service |-> IF p \in DOMAIN COMMON_PORTS THEN COMMON_PORTS[p] ELSE "Unknown",
     error |-> ""]

\* line 29
ClosedEntry == [status |-> "closed", service |-> "", error |-> ""]

\* line 31: str(e) of the exception caught
ErrorEntry(detail) == [status |-> "error", service |-> "", error |-> detail]

\* a store that keeps only the entry written last
PutAlone(res, p, entry) == [q \in {p} |-> entry]

\* results[port] = entry
Put(res, p, entry) ==
    [q \in (DOMAIN res) \cup {p} |-> IF q = p THEN entry ELSE res[q]]

\* a probe whose other failures escape it instead of being stored
RecordedRaising(res, p, o) ==
    CASE o = "established" -> Put(res, p, OpenEntry(p))
      [] o \in {"timeout", "refused"} -> Put(res, p, ClosedEntry)
      [] OTHER -> res

\* lines 21-25 and 28-31: what the probe stores when the awaited connection
\* attempt ends with outcome o
Recorded(res, p, o) ==
    CASE o = "established" -> Put(res, p, OpenEntry(p))
      [] o \in {"timeout", "refused"} -> Put(res, p, ClosedEntry)
      [] OTHER -> Put(res, p, ErrorEntry(o))

\* lines 26-27 and 30-31: what the probe stores when writer.wait_closed()
\* ends with outcome o; an exception it raises is caught by line 30
RecordedOnClose(res, p, o) ==
    IF o = "closed" THEN res ELSE Put(res, p, ErrorEntry(o))

ProbeConnect(p) ==
    /\ pc = "scan"
    /\ task[p] = "connecting"
    /\ \E o \in ConnectOutcomes :
        /\ link' = [link EXCEPT ![p] = o]
        /\ UNCHANGED shut
        /\ results' = Recorded(results, p, o)
        /\ task' = [task EXCEPT ![p] = IF o = "established" THEN "closing" ELSE "done"]
    /\ UNCHANGED <<pc, argVars, current_port, attempt, sp_start, start_from_port,
                   resolved, chunk_size, port, tasks, issued, tmo, batches, joined,
                   prior, invalid, out, exit_code>>

ProbeClose(p) ==
    /\ pc = "scan"
    /\ task[p] = "closing"
    /\ \E o \in CloseOutcomes :
        /\ shut' = [shut EXCEPT ![p] = o]
        /\ results' = RecordedOnClose(results, p, o)
        /\ task' = [task EXCEPT ![p] = "done"]
    /\ UNCHANGED <<pc, argVars, current_port, attempt, sp_start, start_from_port,
                   resolved, chunk_size, port, tasks, issued, tmo, link, batches,
                   joined, prior, invalid, out, exit_code>>

(***************************************************************************)
(* scan_ports, lines 33-87                                                 *)
(***************************************************************************)

\* lines 34-42: ip_address(host) accepts a literal; gethostbyname may fail
ResolveOutcomes(h) == IF h = "ip" THEN {"ok"} ELSE {"ok", "gaierror"}

\* a failure branch without its return
ProceedsAlways(r) == TRUE

\* lines 40-42: the scan goes on to line 44 unless resolution failed
Proceeds(r) == r = "ok"

\* a chunk as large as the whole range
ChunkSizeUncapped(endp, from) == endp - from + 1

\* line 51
ChunkSize(endp, from) == Min(ChunkCap, endp - from + 1)

\* line 54
ChunkEnd(p, cs, endp) == Min(p + cs, endp + 1)

\* line 55: range(port, chunk_end)
BatchPorts(p, cs, endp) == p..(ChunkEnd(p, cs, endp) - 1)

\* lines 55-57: one task is created for every port of the batch; the call
\* scan_port(host, p, results) names no timeout, so the default applies
Spawn(p, cs, tk, iss, bs) ==
    /\ tasks' = BatchPorts(p, cs, end_port)
    /\ task' = [q \in Ports |->
                  IF q \in BatchPorts(p, cs, end_port) THEN "connecting" ELSE tk[q]]
    /\ issued' = [q \in Ports |->
                  IF q \in BatchPorts(p, cs, end_port) THEN iss[q] + 1 ELSE iss[q]]
    /\ tmo' = [q \in Ports |->
                  IF q \in BatchPorts(p, cs, end_port) THEN timeout_default ELSE tmo[q]]
    /\ batches' = Append(bs, BatchPorts(p, cs, end_port))

\* a count of every entry that is not closed
OpenCountNotClosed(res) == Cardinality({q \in DOMAIN res : res[q].status # "closed"})

\* lines 72-76: the number of entries with status "open"
OpenCount(res) == Cardinality({q \in DOMAIN res : res[q].status = "open"})

\* lines 67-87: the summary printed when the loop is over
Summary(res) ==
    [msg |-> "summary", total |-> Cardinality(DOMAIN res), open |-> OpenCount(res)]

\* a wait that ends with the first task to finish
BatchJoinedFirst(ts, tk) == \E p \in ts : tk[p] = "done"

\* lines 60-63: the as_completed loop has awaited every task of the list
BatchJoined(ts, tk) == \A p \in ts : tk[p] = "done"

\* line 53: range(start_from_port, end_port + 1, chunk_size)
RangeSteps(from, endp, cs) == {p \in from..endp : (p - from) % cs = 0}

\* lines 51-57: every port a scan from `from` to endp creates a task for
ScannedPorts(from, endp) ==
    UNION {BatchPorts(p, ChunkSize(endp, from), endp) :
             p \in RangeSteps(from, endp, ChunkSize(endp, from))}

\* lines 18-31: the entry scan_port leaves for port p when its connection
\* attempt ends with o and, if it was established, wait_closed() with c
FinalEntry(p, o, c) ==
    IF o = "established"
    THEN RecordedOnClose(Recorded(NoResults, p, o), p, c)[p]
    ELSE Recorded(NoResults, p, o)[p]

\* Entry of scan_ports up to its first await: resolution (34-42), the locals
\* (44-51) and the tasks of the first batch (53-57).
ScanPortsEnter ==
    /\ pc = "run"
    /\ \E r \in ResolveOutcomes(host) :
        /\ resolved' = IF r = "ok" THEN "ok" ELSE "failed"
        /\ link' = [p \in Ports |-> "none"]
        /\ shut' = [p \in Ports |-> "none"]
        /\ results' = NoResults
        /\ joined' = 0
        /\ IF Proceeds(r)
           THEN /\ chunk_size' = ChunkSize(end_port, start_from_port)
                /\ port' = start_from_port
                /\ IF start_from_port <= end_port
                   THEN /\ Spawn(start_from_port, chunk_size', NoTasks,
                                 [p \in Ports |-> 0], <<>>)
                        /\ out' = out \o
                             (IF r = "ok" THEN <<>> ELSE <<Msg("could_not_resolve")>>)
                             \o <<Msg("starting")>>
                        /\ pc' = "scan"
                        /\ UNCHANGED exit_code
                   ELSE /\ tasks' = {}
                        /\ task' = NoTasks
                        /\ issued' = [p \in Ports |-> 0]
                        /\ tmo' = [p \in Ports |-> 0]
                        /\ batches' = <<>>
                        /\ out' = out \o
                             (IF r = "ok" THEN <<>> ELSE <<Msg("could_not_resolve")>>)
                             \o <<Msg("starting"), Summary(NoResults)>>
                        /\ Exit(0)
           ELSE /\ out' = Append(out, Msg("could_not_resolve"))
                /\ tasks' = {}
                /\ task' = NoTasks
                /\ issued' = [p \in Ports |-> 0]
                /\ tmo' = [p \in Ports |-> 0]
                /\ batches' = <<>>
                /\ Exit(0)
                /\ UNCHANGED <<chunk_size, port>>
    /\ UNCHANGED <<argVars, current_port, attempt, sp_start, start_from_port,
                   prior, invalid>>

\* The as_completed loop is over (60-63), tasks.clear() (64), then either the
\* next iteration creates its tasks (53-57) or the loop ends, the summary is
\* printed (66-87), scan_ports returns and main ends.
JoinBatch ==
    /\ pc = "scan"
    /\ BatchJoined(tasks, task)
    /\ joined' = joined + 1
    /\ port' = port + chunk_size
    /\ IF port' <= end_port
       THEN /\ Spawn(port', chunk_size, task, issued, batches)
            /\ UNCHANGED <<pc, out, exit_code>>
       ELSE /\ tasks' = {}
            /\ out' = Append(out, Summary(results))
            /\ Exit(0)
            /\ UNCHANGED <<task, issued, tmo, batches>>
    /\ UNCHANGED <<argVars, current_port, attempt, sp_start, start_from_port,
                   resolved, chunk_size, results, link, shut, prior, invalid>>

(***************************************************************************)
(* main, lines 119-137: interruption, the prompt, the resumed scan         *)
(***************************************************************************)

\* an interrupt that leaves the tasks as they are
CancelledNone(tk) == tk

\* asyncio.run cancels every task that has not finished before it lets the
\* KeyboardInterrupt through: CancelledError is no Exception, so lines 28-31
\* do not catch it and the cancelled probe stores nothing.
Cancelled(tk) ==
    [q \in Ports |-> IF tk[q] \in {"connecting", "closing"} THEN "cancelled" ELSE tk[q]]

\* ports of the batches this execution has joined
JoinedPorts == UNION {batches[i] : i \in 1..joined}

\* KeyboardInterrupt out of the first asyncio.run (lines 120-122)
Interrupt ==
    /\ pc \in {"run", "scan"}
    /\ attempt = 1
    /\ task' = Cancelled(task)
    /\ out' = Append(out, Msg("interrupted"))
    /\ pc' = "prompt"
    /\ UNCHANGED <<argVars, current_port, attempt, sp_start, start_from_port,
                   resolved, chunk_size, port, tasks, results, issued, tmo, link,
                   shut,
                   batches, joined, prior, invalid, exit_code>>

\* KeyboardInterrupt out of the resumed asyncio.run (line 131), caught by
\* the handler of the prompt loop (lines 135-137)
InterruptResumed ==
    /\ pc \in {"run", "scan"}
    /\ attempt = 2
    /\ task' = Cancelled(task)
    /\ out' = Append(out, Msg("forced_exit"))
    /\ Exit(1)
    /\ UNCHANGED <<argVars, current_port, attempt, sp_start, start_from_port,
                   resolved, chunk_size, port, tasks, results, issued, tmo, link,
                   shut,
                   batches, joined, prior, invalid>>

\* a quit that prints a summary of the entries first
QuitOutputWithSummary(res) == <<Summary(res), Msg("exiting")>>

\* lines 126-128: what quit prints; results of the interrupted scan_ports
\* call is a local of that call and is out of main's reach
QuitOutput(res) == <<Msg("exiting")>>

\* lines 126-128
PromptQuit ==
    /\ pc = "prompt"
    /\ out' = out \o QuitOutput(results)
    /\ Exit(0)
    /\ UNCHANGED <<argVars, current_port, attempt, scanVars, prior, invalid>>

\* lines 129-131: scan_ports(host, current_port, end_port, current_port), a
\* new call with locals of its own; those of the interrupted call are gone.
PromptContinue ==
    /\ pc = "prompt"
    /\ out' = Append(out, Msg("resuming"))
    /\ attempt' = 2
    /\ sp_start' = current_port
    /\ start_from_port' = current_port
    /\ prior' = JoinedPorts
    /\ resolved' = "none"
    /\ chunk_size' = 0
    /\ port' = 0
    /\ tasks' = {}
    /\ task' = NoTasks
    /\ results' = NoResults
    /\ issued' = [p \in Ports |-> 0]
    /\ tmo' = [p \in Ports |-> 0]
    /\ link' = [p \in Ports |-> "none"]
    /\ shut' = [p \in Ports |-> "none"]
    /\ batches' = <<>>
    /\ joined' = 0
    /\ pc' = "run"
    /\ UNCHANGED <<argVars, current_port, invalid, exit_code>>

\* lines 133-134
PromptInvalid ==
    /\ pc = "prompt"
    /\ invalid < MaxInvalid
    /\ invalid' = invalid + 1
    /\ out' = Append(out, Msg("invalid_input"))
    /\ UNCHANGED <<pc, argVars, current_port, attempt, scanVars, prior, exit_code>>

\* lines 135-137: KeyboardInterrupt while input() waits
PromptInterrupt ==
    /\ pc = "prompt"
    /\ out' = Append(out, Msg("forced_exit"))
    /\ Exit(1)
    /\ UNCHANGED <<argVars, current_port, attempt, scanVars, prior, invalid>>

Next ==
    \/ MainRejectRange
    \/ MainRejectOrder
    \/ MainScan
    \/ ScanPortsEnter
    \/ \E p \in Ports : ProbeConnect(p)
    \/ \E p \in Ports : ProbeClose(p)
    \/ JoinBatch
    \/ Interrupt
    \/ InterruptResumed
    \/ PromptQuit
    \/ PromptContinue
    \/ PromptInvalid
    \/ PromptInterrupt

Spec == Init /\ [][Next]_vars

\* The steps of a run in which no KeyboardInterrupt arrives.
NextLive ==
    \/ MainRejectRange
    \/ MainRejectOrder
    \/ MainScan
    \/ ScanPortsEnter
    \/ \E p \in Ports : ProbeConnect(p)
    \/ \E p \in Ports : ProbeClose(p)
    \/ JoinBatch

\* The event loop runs every coroutine that can run: scan_ports is entered,
\* every awaited connection attempt ends (at the latest by its timeout),
\* every wait_closed() ends, and the as_completed loop is resumed.
Fairness ==
    /\ WF_vars(MainScan)
    /\ WF_vars(ScanPortsEnter)
    /\ \A p \in Ports : WF_vars(ProbeConnect(p))
    /\ \A p \in Ports : WF_vars(ProbeClose(p))
    /\ WF_vars(JoinBatch)

SpecLive == Init /\ [][NextLive]_vars /\ Fairness

(***************************************************************************)
(* Properties                                                              *)
(***************************************************************************)

\* scan_ports has printed its summary and returned
ScanCompleted == pc = "exited" /\ Len(out) > 0 /\ out[Len(out)].msg = "summary"

ProbedPorts == {p \in Ports : issued[p] > 0}

CeilDiv(a, b) == (a + b - 1) \div b

\* C1: when a scan started by main for a valid range [s,e] completes, the
\* result store holds exactly e-s+1 entries, one for each port of [s,e] and
\* none for any other port.
C1_ExactlyRequestedRange ==
    ScanCompleted =>
        /\ DOMAIN results = start_port..end_port
        /\ Cardinality(DOMAIN results) = end_port - start_port + 1

\* C2: a scan of R = end_port - start_port + 1 ports runs exactly
\* ceil(R / cap) batches, and every batch but the last has exactly cap ports.
C2_BatchCount ==
    ScanCompleted =>
        /\ Len(batches) = CeilDiv(end_port - start_port + 1, ChunkCap)
        /\ \A i \in 1..(Len(batches) - 1) : Cardinality(batches[i]) = ChunkCap

\* C3: batches are strictly sequential: whenever a later batch exists, every
\* probe of every earlier batch of the same execution has resolved.
C3_BatchesSequential ==
    \A i \in 1..Len(batches) : \A j \in 1..Len(batches) :
        i < j => \A p \in batches[i] : task[p] = "done"

C3_Witness ==
    /\ pc = "scan"
    /\ Len(batches) >= 2
    /\ \E p \in batches[Len(batches)] : task[p] = "connecting"
    /\ \E p \in batches[1] : link[p] = "timeout"

\* C4: after interrupt and continue, the resumed scan starts from the
\* interruption cursor: no port of a batch that had completed before the
\* interruption is probed again.
C4_NoCompletedBatchRepeated ==
    attempt = 2 => \A p \in prior : issued[p] = 0

\* C5: a scan that was interrupted and resumed to completion ends with the
\* result set of the uninterrupted scan of the same range against the same
\* port states: the same ports, each with the entry its port state gives.
C5_ResumeEquivalence ==
    (attempt = 2 /\ ScanCompleted) =>
        /\ DOMAIN results = ScannedPorts(start_from_default, end_port)
        /\ \A p \in DOMAIN results : results[p] = FinalEntry(p, link[p], shut[p])

\* C6: with --common the ports probed are exactly the listed ports: no
\* unlisted port is probed, and a completed scan has probed every listed one.
C6_CommonExactlyListed ==
    (common /\ pc # "main") =>
        /\ ProbedPorts \subseteq DOMAIN COMMON_PORTS
        /\ ScanCompleted => ProbedPorts = DOMAIN COMMON_PORTS

\* C7: whenever the range main validates has start < 1, end > the greatest
\* port, or start > end, main prints the rejection and returns: the host is
\* never resolved, no probe is issued and nothing is recorded.
C7_ValidationRejects ==
    (pc # "main" /\ (start_port < 1 \/ end_port > MaxPort \/ start_port > end_port)) =>
        /\ pc = "exited"
        /\ exit_code = 0
        /\ attempt = 0
        /\ resolved = "none"
        /\ ProbedPorts = {}
        /\ task = NoTasks
        /\ results = NoResults
        /\ Len(out) = 1
        /\ out[1].msg \in {"range_error", "order_error"}

C7_Witness ==
    /\ pc = "exited"
    /\ ~common
    /\ start_port >= 1
    /\ end_port <= MaxPort
    /\ start_port > end_port
    /\ out = <<Msg("order_error")>>

ResolveReports == Cardinality({i \in 1..Len(out) : out[i].msg = "could_not_resolve"})

\* C8: when name resolution fails in a scan, the scan is over at once: the
\* host was no literal address, the failure is reported exactly once, the
\* program has ended, and that scan has issued no probe and recorded nothing.
C8_ResolutionFatal ==
    resolved = "failed" =>
        /\ host = "name"
        /\ pc = "exited"
        /\ ResolveReports = 1
        /\ out[Len(out)].msg = "could_not_resolve"
        /\ ProbedPorts = {}
        /\ task = NoTasks
        /\ batches = <<>>
        /\ results = NoResults

C8_Witness ==
    /\ resolved = "failed"
    /\ attempt = 1
    /\ pc = "exited"

\* C9: the entry finally recorded by a probe is open (with the table's
\* service name, or "Unknown") if and only if the connection was
\* established; it is closed after a timeout or refusal; and it is error,
\* with a detail string, only when the connection attempt failed otherwise.
C9_Classification ==
    \A p \in Ports :
        task[p] = "done" =>
            /\ p \in DOMAIN results
            /\ results[p].status = "open" <=> link[p] = "established"
            /\ results[p].status = "open" =>
                   results[p].service =
                       IF p \in DOMAIN COMMON_PORTS THEN COMMON_PORTS[p] ELSE "Unknown"
            /\ link[p] \in {"timeout", "refused"} => results[p].status = "closed"
            /\ results[p].status = "error" =>
                   (link[p] = "oserror" /\ results[p].error # "")

Failed(p) ==
    link[p] \in {"timeout", "refused", "oserror"} \/ shut[p] = "lost"

\* C10: a probe that ends in timeout, refusal or any other failure leaves an
\* entry for its port and the scan goes on: no port is probed twice in a
\* scan, the scan is still scanning or has ended by its summary, by an
\* interrupt or by the operator quitting, and a completed scan has an entry
\* for every port from its first to its last.
C10_FailuresContained ==
    /\ \A p \in Ports : issued[p] <= 1
    /\ \A p \in Ports :
          (task[p] = "done" /\ Failed(p)) =>
              (p \in DOMAIN results /\ results[p].status \in {"closed", "error"})
    /\ (resolved = "ok" /\ pc = "exited") =>
          out[Len(out)].msg \in {"summary", "exiting", "forced_exit"}
    /\ (resolved = "ok" /\ ScanCompleted) =>
          /\ \A p \in start_from_port..end_port : p \in DOMAIN results
          /\ joined = Len(batches)

C10_Witness ==
    /\ ScanCompleted
    /\ Len(batches) >= 2
    /\ \E p \in batches[1] : link[p] = "oserror" /\ results[p].status = "error"
    /\ \E p \in batches[1] : link[p] = "established" /\ shut[p] = "lost"
    /\ \E p \in batches[2] : results[p].status = "open"

\* the last message printed
LastMsg == IF out = <<>> THEN "" ELSE out[Len(out)].msg

\* C11: a Scanning state, of the initial or of the resumed scan, is left
\* only to Interrupted (the prompt) or by completion: an interrupt during
\* Scanning never takes the run directly to a terminal state.
C11_InterruptPauses ==
    [][(pc = "scan" /\ pc' # "scan") => (pc' = "prompt" \/ ScanCompleted')]_vars

\* C12 as stated: when the operator quits at the prompt, a partial summary
\* of the results recorded so far is emitted before the process ends.
C12_QuitEmitsPartialSummary ==
    (pc = "exited" /\ LastMsg = "exiting") =>
        \E i \in 1..Len(out) :
            /\ out[i].msg = "summary"
            /\ out[i].total = Cardinality(DOMAIN results)

\* C12 as amended: when the operator quits at the prompt, the exit message
\* is printed right after the prompt's messages and the process ends with
\* exit code 0; no summary is emitted, whatever had been recorded.
C12_QuitExitsWithoutSummary ==
    (pc = "exited" /\ LastMsg = "exiting") =>
        /\ exit_code = 0
        /\ attempt = 1
        /\ out[Len(out) - 1].msg \in {"interrupted", "invalid_input"}
        /\ \A i \in 1..Len(out) : out[i].msg # "summary"

C12_Witness ==
    /\ pc = "exited"
    /\ LastMsg = "exiting"
    /\ \E p \in DOMAIN results : results[p].status = "open"

\* C13: a quit after an interrupt ends the process with exit code 0, and a
\* non-zero exit code arises only from a resolution failure or from an
\* interrupt raised while the prompt is waiting for input.
C13_ExitCodes ==
    pc = "exited" =>
        /\ LastMsg = "exiting" => exit_code = 0
        /\ exit_code # 0 =>
              \/ resolved = "failed"
              \/ /\ LastMsg = "forced_exit"
                 /\ Len(out) >= 2
                 /\ out[Len(out) - 1].msg \in {"interrupted", "invalid_input"}

\* the run has been interrupted and the interrupted scan is the last one
Interrupted == pc = "prompt" \/ (pc = "exited" /\ LastMsg \in {"exiting", "forced_exit"})

\* C14 as stated: the probes in flight at the interrupt run to their own
\* resolution and their results are recorded.
C14_InFlightFinish ==
    Interrupted => \A p \in tasks : task[p] = "done" /\ p \in DOMAIN results

\* C14 as amended: at an interrupt the probes of the current batch still in
\* flight are cancelled: none is left running, one that was still awaiting
\* its connection has no entry, one that had stored its open entry keeps
\* it, and the cancelled probes all belong to the last batch started.
C14_InFlightCancelled ==
    Interrupted =>
        /\ \A p \in Ports : task[p] \notin {"connecting", "closing"}
        /\ \A p \in Ports :
              task[p] = "cancelled" =>
                  /\ batches # <<>>
                  /\ p \in batches[Len(batches)]
                  /\ p \in tasks
                  /\ link[p] = "none" => p \notin DOMAIN results
                  /\ link[p] # "none" =>
                        (p \in DOMAIN results /\ results[p] = OpenEntry(p))
        /\ Len(batches) <= joined + 1

C14_Witness ==
    /\ pc = "prompt"
    /\ \E p \in tasks : task[p] = "cancelled" /\ p \notin DOMAIN results
    /\ \E p \in tasks : task[p] = "cancelled" /\ p \in DOMAIN results

\* C15: every probe, of the initial and of the resumed scan, bounds its
\* connection attempt by the timeout the operator supplied.
C15_TimeoutHonoured ==
    \A p \in Ports : tmo[p] # 0 => tmo[p] = timeout

\* probe tasks created and not yet finished
InFlight == {p \in Ports : task[p] \in {"connecting", "closing"}}

\* C16: in every reachable state the number of probe tasks created and not
\* yet resolved is at most the batch cap.
C16_PeakConcurrency == Cardinality(InFlight) <= ChunkCap

C16_Witness ==
    /\ Cardinality(InFlight) = ChunkCap
    /\ Len(batches) >= 2
    /\ end_port - start_from_port + 1 > ChunkCap

\* C17: within one execution of scan_ports, once an entry has been written
\* for a port no later step changes it.
C17_EntryImmutable ==
    [][\A p \in DOMAIN results :
          p \in DOMAIN results' => results'[p] = results[p]]_vars

EntryChanged(q) ==
    \/ q \in DOMAIN results /\ q \notin DOMAIN results'
    \/ q \in DOMAIN results' /\ q \notin DOMAIN results
    \/ q \in DOMAIN results /\ q \in DOMAIN results' /\ results'[q] # results[q]

\* C18: in every interleaving of the probes of a batch, a step that changes
\* the entry of a port is a step of that port's own probe and changes no
\* other entry, no entry is lost, and every port of a joined batch has an
\* entry.
C18_RecordingSafe ==
    [][/\ attempt' = attempt =>
            \A q \in Ports :
                EntryChanged(q) =>
                    /\ q \in DOMAIN results'
                    /\ task[q] \in {"connecting", "closing"}
                    /\ task'[q] # task[q]
                    /\ \A r \in Ports \ {q} : task'[r] = task[r] /\ ~EntryChanged(r)
       /\ \A i \in 1..joined' : \A p \in batches'[i] : p \in DOMAIN results'
      ]_vars

C18_Witness ==
    /\ joined >= 1
    /\ pc = "scan"
    /\ \E p \in batches[1] : \E q \in batches[1] :
          p # q /\ results[p].status = "open" /\ results[q].status = "closed"
    /\ \E p \in batches[2] : p \in DOMAIN results

\* C19: in a run started with a valid range, every port a probe is issued
\* for and every port with an entry lies within [start_port, end_port].
C19_RangeContainment ==
    attempt >= 1 =>
        /\ ProbedPorts \subseteq start_port..end_port
        /\ DOMAIN results \subseteq start_port..end_port

\* C20: when the host has resolved and no interrupt arrives, the scan joins
\* every batch and completes with a summary whose total is the number of
\* recorded ports and whose open count is the number of open entries.
C20_Terminates ==
    (pc = "scan") ~>
        /\ ScanCompleted
        /\ joined = Len(batches)
        /\ out[Len(out)].total = Cardinality(DOMAIN results)
        /\ out[Len(out)].open =
              Cardinality({p \in DOMAIN results : results[p].status = "open"})

C20_Witness ==
    /\ ScanCompleted
    /\ Len(batches) >= 2
    /\ out[Len(out)].open >= 1
    /\ out[Len(out)].total > out[Len(out)].open
    /\ \E p \in DOMAIN results : results[p].status = "error"

====
